---- MODULE Spec2Model ----
(***************************************************************************)
(* Model of jump (src/src/main.rs): a registry of ssh server profiles kept *)
(* in one SQLite table, and the dispatch of a stored profile to ssh or     *)
(* sshpass.  One command runs per process invocation; the table is the     *)
(* only state that survives an invocation.                                 *)
(*                                                                         *)
(* Text that the program takes apart (the method token, the port column)   *)
(* is a sequence of one-character strings.  Text that it only carries      *)
(* around (server name, username, address) is an opaque string.            *)
(***************************************************************************)
EXTENDS Integers, Sequences, FiniteSets, TLC

\* Longest key path / password (in characters) an add command is given.
MaxLen == 2

\* Characters of a key path or password; ":" is the token's separator.
Chars == {"p", ":"}

Names == {"web1", "db1"}
Usernames == {"alice", "bob"}
Addresses == {"10.0.0.5", "10.0.0.9"}

\* The optional port argument of an add command (a u32): <<>> when it is
\* left out, <<n>> when it is given.
PortArgs == {<<>>, <<0>>, <<65535>>, <<65536>>}

\* Characters and longest length of the text a method column may hold when the
\* row was not written by add_server.
TokenChars == {"s", "h", ":"}
MaxTokenLen == 4

\* Exit statuses of the child process.
ExitCodes == {0, 1, 255}

None == [variant |-> "None"]

--------------------------------------------------------------------------
(* Text helpers *)

RECURSIVE SeqsUpTo(_, _)
SeqsUpTo(S, n) ==
    IF n = 0 THEN {<<>>}
    ELSE LET shorter == SeqsUpTo(S, n - 1)
         IN  shorter \cup {Append(s, c) : s \in {t \in shorter : Len(t) = n - 1}, c \in S}

Payloads == SeqsUpTo(Chars, MaxLen)

\* str::split(":"): the pieces between separators; an input without a
\* separator is one piece, and an empty input is one empty piece.
RECURSIVE Split(_, _)
Split(s, sep) ==
    IF \A i \in 1..Len(s) : s[i] # sep THEN <<s>>
    ELSE LET i == CHOOSE k \in 1..Len(s) : s[k] = sep /\ \A j \in 1..(k - 1) : s[j] # sep
         IN  <<SubSeq(s, 1, i - 1)>> \o Split(SubSeq(s, i + 1, Len(s)), sep)

Digit(d) == CASE d = 0 -> "0" [] d = 1 -> "1" [] d = 2 -> "2" [] d = 3 -> "3"
              [] d = 4 -> "4" [] d = 5 -> "5" [] d = 6 -> "6" [] d = 7 -> "7"
              [] d = 8 -> "8" [] d = 9 -> "9"

DigitValue(c) == CHOOSE d \in 0..9 : Digit(d) = c

\* u32::to_string: the decimal digits, most significant first.
RECURSIVE to_string(_)
to_string(n) ==
    IF n < 10 THEN <<Digit(n)>> ELSE Append(to_string(n \div 10), Digit(n % 10))

\* The port column has INTEGER affinity: decimal text bound to it is stored
\* as the integer it spells, which row.get(3) reads back.
RECURSIVE IntegerAffinity(_)
IntegerAffinity(text) ==
    IF Len(text) = 0 THEN 0
    ELSE 10 * IntegerAffinity(SubSeq(text, 1, Len(text) - 1)) + DigitValue(text[Len(text)])

--------------------------------------------------------------------------
(* ConnectMethods and its codec *)

SSHKey(path) == [variant |-> "SSHKey", path |-> path]
Password(password) == [variant |-> "Password", password |-> password]
Panic == [variant |-> "panic"]

ConnectMethods == {SSHKey(p) : p \in Payloads} \cup {Password(p) : p \in Payloads}

\* impl Display for ConnectMethods
Display(m) ==
    IF m.variant = "SSHKey" THEN <<"s", "s", "h", ":">> \o m.path
    ELSE <<"p", "a", "s", "s", ":">> \o m.password

\* impl From<String> for ConnectMethods: v[1] of a one-piece split is an
\* index out of bounds, which panics.
From(method) ==
    LET v == Split(method, ":")
    IN  IF Len(v) < 2 THEN Panic
        ELSE IF v[1] = <<"s", "s", "h">> THEN SSHKey(v[2])
        ELSE Password(v[2])

--------------------------------------------------------------------------
(* State *)

VARIABLES
    tableExists,  \* the jump_servers table has been created
    table,        \* its rows, in rowid order
    pc,           \* where the running invocation is; "idle" between invocations
    out,          \* the invocation's command, its argument and what it reported
    server,       \* connect_to_server's resolved Server, or None
    child,        \* the process connect_to_server launched, or None
    added         \* history: name -> the Server of the add that stored it, or None

vars == <<tableExists, table, pc, out, server, child, added>>

\* struct Server, as clap builds it: the port defaults to 22.
DefaultPort == 22

Server(name, username, address, portArg, method) ==
    [server_name |-> name, username |-> username, server_address |-> address,
     port |-> IF portArg = <<>> THEN DefaultPort ELSE portArg[1], method |-> method]

\* The add commands explored: every method for alice@10.0.0.5 with the port
\* left out, and every user, address and port argument with a one-character
\* key path or password.
Servers ==
    {Server(n, "alice", "10.0.0.5", <<>>, m) : n \in Names, m \in ConnectMethods}
    \cup {Server(n, "alice", "10.0.0.5", p, m) :
             n \in Names, p \in PortArgs, m \in {SSHKey(<<"p">>), Password(<<"p">>)}}
    \cup {Server(n, u, a, <<>>, m) :
             n \in Names, u \in Usernames, a \in Addresses,
             m \in {SSHKey(<<"p">>), Password(<<"p">>)}}

\* What an invocation reports: its command and the server name it was given (None
\* when it takes none), main's Result ("Ok", or "Err" with the error),
\* "panic" for an unwinding abort, "running" until it ends; the rows its
\* statement changed (what execute returns), the lines it printed and the
\* Servers list_servers built.
Report(op, arg) ==
    [op |-> op, arg |-> arg, result |-> "running", error |-> "none",
     changes |-> 0, printed |-> <<>>, listed |-> <<>>]

Ok(r) == [r EXCEPT !.result = "Ok"]
Err(r, e) == [r EXCEPT !.result = "Err", !.error = e]
Panicked(r) == [r EXCEPT !.result = "panic"]

RowNames(t) == {t[i].server_name : i \in 1..Len(t)}

\* The closure of query_map / query_row: a row read back as a Server.
RowToServer(row) ==
    [server_name |-> row.server_name, username |-> row.username,
     server_address |-> row.server_address, port |-> row.port,
     method |-> From(row.method)]

Init ==
    /\ tableExists = FALSE
    /\ table = <<>>
    /\ pc = "idle"
    /\ out = Report("none", None)
    /\ server = None
    /\ child = None
    /\ added = [n \in Names |-> None]

--------------------------------------------------------------------------
(* Store commands *)

\* A bug initialize could have: the table is created anew, empty.
initialize_Recreates ==
    /\ pc = "idle"
    /\ tableExists' = TRUE
    /\ table' = <<>>
    /\ out' = Ok(Report("initialize", None))
    /\ server' = None /\ child' = None
    /\ UNCHANGED <<pc, added>>

\* fn initialize: create table if not exists.
initialize ==
    /\ pc = "idle"
    /\ tableExists' = TRUE
    /\ out' = Ok(Report("initialize", None))
    /\ server' = None /\ child' = None
    /\ UNCHANGED <<table, pc, added>>

\* The row add_server binds: every parameter as text, the port through the
\* column's INTEGER affinity, the method as its token.
InsertedRow(s) ==
    [server_name |-> s.server_name, username |-> s.username,
     server_address |-> s.server_address,
     port |-> IntegerAffinity(to_string(s.port)), method |-> Display(s.method)]

\* A bug add_server could have: server_name is not declared unique.
add_server_NotUnique(s) ==
    /\ pc = "idle"
    /\ server' = None /\ child' = None
    /\ IF ~tableExists
         THEN /\ out' = Err(Report("add", s.server_name), "NoSuchTable")
              /\ UNCHANGED <<table, added>>
       ELSE /\ table' = Append(table, InsertedRow(s))
            /\ added' = [added EXCEPT ![s.server_name] = s]
            /\ out' = Ok([Report("add", s.server_name) EXCEPT !.changes = 1])
    /\ UNCHANGED <<tableExists, pc>>

\* fn add_server: one INSERT; server_name is UNIQUE.
add_server(s) ==
    /\ pc = "idle"
    /\ server' = None /\ child' = None
    /\ IF ~tableExists
         THEN /\ out' = Err(Report("add", s.server_name), "NoSuchTable")
              /\ UNCHANGED <<table, added>>
       ELSE IF s.server_name \in RowNames(table)
         THEN /\ out' = Err(Report("add", s.server_name), "UniqueViolation")
              /\ UNCHANGED <<table, added>>
       ELSE /\ table' = Append(table, InsertedRow(s))
            /\ added' = [added EXCEPT ![s.server_name] = s]
            /\ out' = Ok([Report("add", s.server_name) EXCEPT !.changes = 1])
    /\ UNCHANGED <<tableExists, pc>>

\* DELETE FROM jump_servers WHERE server_name = ?1
DeleteWhere(t, name) == SelectSeq(t, LAMBDA row : row.server_name # name)

\* A bug remove_server could have: zero rows affected is an error.
remove_server_MissingIsError(name) ==
    /\ pc = "idle"
    /\ server' = None /\ child' = None
    /\ IF ~tableExists
         THEN /\ out' = Err(Report("rm", name), "NoSuchTable")
              /\ UNCHANGED <<table, added>>
       ELSE IF name \notin RowNames(table)
         THEN /\ out' = Err(Report("rm", name), "QueryReturnedNoRows")
              /\ UNCHANGED <<table, added>>
       ELSE /\ table' = DeleteWhere(table, name)
            /\ added' = [added EXCEPT ![name] = None]
            /\ out' = Ok([Report("rm", name) EXCEPT
                            !.changes = Len(table) - Len(DeleteWhere(table, name))])
    /\ UNCHANGED <<tableExists, pc>>

\* fn remove_server: zero rows affected is not an error.
remove_server(name) ==
    /\ pc = "idle"
    /\ server' = None /\ child' = None
    /\ IF ~tableExists
         THEN /\ out' = Err(Report("rm", name), "NoSuchTable")
              /\ UNCHANGED <<table, added>>
       ELSE /\ table' = DeleteWhere(table, name)
            /\ added' = [added EXCEPT ![name] = None]
            /\ out' = Ok([Report("rm", name) EXCEPT
                            !.changes = Len(table) - Len(DeleteWhere(table, name))])
    /\ UNCHANGED <<tableExists, pc>>

ListLine(s) == <<s.server_name, " username: ", s.username, " address: ", s.server_address>>

\* The rows list_servers gets through before a row's closure panics: the
\* iterator is lazy, so each row is decoded and printed before the next.
ReadableRows(t) ==
    IF \E i \in 1..Len(t) : From(t[i].method) = Panic
    THEN (CHOOSE i \in 1..Len(t) :
            /\ From(t[i].method) = Panic
            /\ \A j \in 1..(i - 1) : From(t[j].method) # Panic) - 1
    ELSE Len(t)

\* fn list_servers
list_servers ==
    /\ pc = "idle"
    /\ server' = None /\ child' = None
    /\ IF ~tableExists
         THEN out' = Err(Report("ls", None), "NoSuchTable")
       ELSE LET k == ReadableRows(table)
                r == [Report("ls", None) EXCEPT
                        !.listed = [i \in 1..k |-> RowToServer(table[i])],
                        !.printed = [i \in 1..k |-> ListLine(RowToServer(table[i]))]]
            IN  out' = IF k < Len(table) THEN Panicked(r) ELSE Ok(r)
    /\ UNCHANGED <<tableExists, table, pc, added>>

--------------------------------------------------------------------------
(* connect_to_server, one step per state of the dispatcher *)

\* fn main: Opt::Conn starts connect_to_server.
ConnectStart(name) ==
    /\ pc = "idle"
    /\ pc' = "Resolving"
    /\ out' = Report("conn", name)
    /\ server' = None /\ child' = None
    /\ UNCHANGED <<tableExists, table, added>>

\* A bug connect_to_server could have: a missing row is taken for nothing to
\* do, and the command ends Ok.
ConnectResolve_MissIsOk ==
    /\ pc = "Resolving"
    /\ IF ~tableExists
         THEN /\ out' = Err(out, "NoSuchTable")
              /\ pc' = "idle"
              /\ UNCHANGED server
       ELSE IF out.arg \notin RowNames(table)
         THEN /\ out' = Ok(out)
              /\ pc' = "idle"
              /\ UNCHANGED server
       ELSE LET i == CHOOSE k \in 1..Len(table) : table[k].server_name = out.arg
                s == RowToServer(table[i])
            IN  IF s.method = Panic
                  THEN /\ out' = Panicked(out)
                       /\ pc' = "idle"
                       /\ UNCHANGED server
                ELSE /\ server' = s
                     /\ out' = [out EXCEPT !.printed = Append(@, <<"connecting to server...">>)]
                     /\ pc' = "Spawning"
    /\ UNCHANGED <<tableExists, table, child, added>>

\* prepare and query_row: the first row of that name, decoded.
ConnectResolve ==
    /\ pc = "Resolving"
    /\ IF ~tableExists
         THEN /\ out' = Err(out, "NoSuchTable")
              /\ pc' = "idle"
              /\ UNCHANGED server
       ELSE IF out.arg \notin RowNames(table)
         THEN /\ out' = Err(out, "QueryReturnedNoRows")
              /\ pc' = "idle"
              /\ UNCHANGED server
       ELSE LET i == CHOOSE k \in 1..Len(table) :
                        /\ table[k].server_name = out.arg
                        /\ \A j \in 1..(k - 1) : table[j].server_name # out.arg
                s == RowToServer(table[i])
            IN  IF s.method = Panic
                  THEN /\ out' = Panicked(out)
                       /\ pc' = "idle"
                       /\ UNCHANGED server
                ELSE /\ server' = s
                     /\ out' = [out EXCEPT !.printed = Append(@, <<"connecting to server...">>)]
                     /\ pc' = "Spawning"
    /\ UNCHANGED <<tableExists, table, child, added>>

UserAtHost(s) == <<s.username, "@", s.server_address>>

\* The Command built for the resolved server.  The path was built from a
\* String, so path.to_str() is always Some and the "Invalid ssh key path"
\* error cannot arise.
CommandFor(s) ==
    IF s.method.variant = "Password"
    THEN [program |-> "sshpass",
          args |-> <<"-p", s.method.password, "ssh", "-p", to_string(s.port), UserAtHost(s)>>]
    ELSE [program |-> "ssh",
          args |-> <<"-i", s.method.path, "-p", to_string(s.port), UserAtHost(s)>>]

\* Command::output: the launch succeeds and the call waits for the child, or
\* the launch fails and `?` returns the error.
ConnectSpawn ==
    /\ pc = "Spawning"
    /\ \/ /\ child' = [variant |-> "Child", command |-> CommandFor(server), status |-> <<>>]
          /\ pc' = "Attached"
          /\ UNCHANGED out
       \/ /\ out' = Err(out, "SpawnFailed")
          /\ pc' = "idle"
          /\ UNCHANGED child
    /\ UNCHANGED <<tableExists, table, server, added>>

\* The child exits with some status; output() returns Ok whatever it is.
ChildExit(code) ==
    /\ pc = "Attached"
    /\ child' = [child EXCEPT !.status = <<code>>]
    /\ pc' = "Disconnected"
    /\ UNCHANGED <<tableExists, table, out, server, added>>

\* A bug connect_to_server could have: a non-zero exit status of the child is
\* returned as an error.
ConnectReport_ChecksStatus ==
    /\ pc = "Disconnected"
    /\ out' = IF child.status = <<0>>
                THEN Ok([out EXCEPT !.printed = Append(@, <<"server disconnected">>)])
                ELSE Err(out, "ChildFailed")
    /\ pc' = "idle"
    /\ UNCHANGED <<tableExists, table, server, child, added>>

\* println!("server disconnected"); Ok(())
ConnectReport ==
    /\ pc = "Disconnected"
    /\ out' = Ok([out EXCEPT !.printed = Append(@, <<"server disconnected">>)])
    /\ pc' = "idle"
    /\ UNCHANGED <<tableExists, table, server, child, added>>

--------------------------------------------------------------------------

Next ==
    \/ initialize
    \/ \E s \in Servers : add_server(s)
    \/ \E n \in Names : remove_server(n)
    \/ list_servers
    \/ \E n \in Names : ConnectStart(n)
    \/ ConnectResolve
    \/ ConnectSpawn
    \/ \E c \in ExitCodes : ChildExit(c)
    \/ ConnectReport

Spec == Init /\ [][Next]_vars

\* The store file outlives every invocation and its method column is plain
\* text: this specification starts from an initialized table holding one row
\* whose method is any text, as another writer of the file may have left it.
Tokens == SeqsUpTo(TokenChars, MaxTokenLen)

InitAnyRow ==
    /\ tableExists = TRUE
    /\ \E n \in Names, t \in Tokens :
          table = <<[server_name |-> n, username |-> "alice",
                     server_address |-> "10.0.0.5", port |-> DefaultPort, method |-> t]>>
    /\ pc = "idle"
    /\ out = Report("none", None)
    /\ server = None
    /\ child = None
    /\ added = [n \in Names |-> None]

SpecAnyRow == InitAnyRow /\ [][Next]_vars

--------------------------------------------------------------------------
(* Properties *)

Disconnected == <<"server disconnected">>

Printed(r, line) == \E i \in 1..Len(r.printed) : r.printed[i] = line

HasColon(text) == \E i \in 1..Len(text) : text[i] = ":"

Stored == {n \in Names : added[n] # None}

\* C1: decoding the token that encodes a method gives the method back, also
\* when its path or password contains ':'. The resolved server of a connect
\* carries the decoded token of the row that add_server encoded.
C1_RoundTrip ==
    server # None => server.method = added[server.server_name].method

\* C2: reading a row whose method token has no ':' ends the list or connect
\* command as an ordinary error, neither a defaulted method nor an abort.
C2_MalformedTokenIsError ==
    /\ (out.op = "ls" /\ tableExists
          /\ \E i \in 1..Len(table) : ~HasColon(table[i].method))
       => out.result = "Err"
    /\ (out.op = "conn" /\ pc = "idle" /\ tableExists
          /\ \E i \in 1..Len(table) :
                table[i].server_name = out.arg /\ ~HasColon(table[i].method))
       => out.result = "Err"

NoDuplicateNames ==
    \A i, j \in 1..Len(table) : table[i].server_name = table[j].server_name => i = j

\* C3: on an initialized store an add under a name already stored fails with
\* the uniqueness error and leaves every row as it was; no two rows of any
\* reachable table share a server_name.
C3_Uniqueness ==
    /\ [][(out'.op = "add" /\ tableExists /\ out'.arg \in RowNames(table))
            => (out'.result = "Err" /\ out'.error = "UniqueViolation" /\ table' = table)]_vars
    /\ []NoDuplicateNames

C3_Witness ==
    out.op = "add" /\ out.error = "UniqueViolation" /\ out.arg \in RowNames(table)

\* C4: on an initialized store a remove succeeds whether or not the name is
\* stored; a remove of a name not stored leaves the table as it was, and so a
\* second remove of the same name succeeds and changes nothing.
C4_IdempotentRemove ==
    /\ [][(out'.op = "rm" /\ tableExists)
            => (/\ out'.result = "Ok"
                /\ out'.arg \notin RowNames(table')
                /\ (out'.arg \notin RowNames(table) => table' = table))]_vars
    /\ [][(out.op = "rm" /\ out.result = "Ok" /\ out'.op = "rm" /\ out'.arg = out.arg)
            => (out'.result = "Ok" /\ table' = table)]_vars

C4_Witness ==
    out.op = "rm" /\ out.result = "Ok" /\ out.changes = 0 /\ Len(table) > 0

\* C5: a connect to a name that is not stored fails while resolving with the
\* no-rows error: no child is launched, "server disconnected" is not printed,
\* and the table is as it was.
C5_LookupMiss ==
    /\ [][(pc = "Resolving" /\ tableExists /\ out.arg \notin RowNames(table))
            => (/\ out'.result = "Err" /\ out'.error = "QueryReturnedNoRows"
                /\ pc' = "idle" /\ child' = None /\ server' = None
                /\ ~Printed(out', Disconnected)
                /\ table' = table)]_vars
    /\ [](out.error = "QueryReturnedNoRows"
            => (pc = "idle" /\ child = None /\ ~Printed(out, Disconnected)))

C5_Witness ==
    out.op = "conn" /\ out.error = "QueryReturnedNoRows" /\ Len(table) > 0

\* C6: once the child is launched connect reports nothing until the child
\* exits, and then prints "server disconnected" and returns Ok whatever the
\* exit status; a failed launch returns an error and never prints it.
C6_ConnectCompletion ==
    /\ [][pc = "Attached" => (pc' = "Disconnected" /\ out' = out)]_vars
    /\ [][pc = "Disconnected"
            => (out'.result = "Ok" /\ Printed(out', Disconnected) /\ pc' = "idle")]_vars
    /\ [][(pc = "Spawning" /\ pc' # "Attached")
            => (out'.result = "Err" /\ out'.error = "SpawnFailed" /\ child' = None)]_vars
    /\ [](Printed(out, Disconnected) => (child # None /\ child.status # <<>>))
    /\ [](out.error = "SpawnFailed" => (child = None /\ ~Printed(out, Disconnected)))

C6_Witness ==
    /\ out.op = "conn" /\ out.result = "Ok" /\ Printed(out, Disconnected)
    /\ child # None /\ child.status = <<255>>

\* C7: initialize on an initialized store succeeds and leaves every row as it
\* was, whatever adds, removes and initializes came before.
C7_InitializeIdempotent ==
    [][(out'.op = "initialize" /\ tableExists)
        => (out'.result = "Ok" /\ tableExists' /\ table' = table)]_vars

C7_Witness ==
    out.op = "initialize" /\ out.result = "Ok" /\ Len(table) = 2

\* C8: every stored profile has a port in 1..65535; an add with a port outside
\* that range stores nothing.
C8_PortInRange ==
    \A i \in 1..Len(table) : table[i].port \in 1..65535

\* C9: list yields exactly one profile for each name added and not removed
\* since, and each carries the username, address, port and method of its add.
C9_ListContents ==
    (out.op = "ls" /\ tableExists)
    => /\ out.result = "Ok"
       /\ {out.listed[i].server_name : i \in 1..Len(out.listed)} = Stored
       /\ Len(out.listed) = Cardinality(Stored)
       /\ \A i \in 1..Len(out.listed) : out.listed[i] = added[out.listed[i].server_name]

\* The command line the dispatcher is to build for a profile as it was added.
ExpectedCommand(s) ==
    IF s.method.variant = "Password"
    THEN [program |-> "sshpass",
          args |-> <<"-p", s.method.password, "ssh", "-p", to_string(s.port),
                     <<s.username, "@", s.server_address>> >>]
    ELSE [program |-> "ssh",
          args |-> <<"-i", s.method.path, "-p", to_string(s.port),
                     <<s.username, "@", s.server_address>> >>]

\* C10: the child a connect launches is sshpass with [-p, password, ssh, -p,
\* port, username@serverAddress] for a password profile and ssh with [-i, path,
\* -p, port, username@serverAddress] for a key profile, with the values the
\* profile was added with.
C10_DispatchByMethod ==
    child # None => child.command = ExpectedCommand(added[out.arg])

====
